---- MODULE Spec2Model ----
(***************************************************************************)
(* Model of src/batch_requestor.py: BatchRequestor, a request batcher      *)
(* running on a single asyncio event loop.                                 *)
(*                                                                         *)
(* Atomicity follows asyncio: a coroutine runs without interruption from   *)
(* one suspension point to the next.  The suspension points of the code    *)
(* are `await request.func(...)` (line 67), `await asyncio.sleep(...)`     *)
(* (line 80) and `await future` (line 108).  `async with self.lock`        *)
(* (line 44) never suspends: its body has no await, so the lock is never   *)
(* held across a suspension point and asyncio.Lock.acquire returns at once *)
(* when the lock is free.                                                  *)
(*                                                                         *)
(* A request is identified by its submission number r = 1, 2, ...; the     *)
(* BatchRequest object of request r is <<funcs[r], futures[r]>>, and the   *)
(* process_batch task created by submission r is task[r].                  *)
(***************************************************************************)
EXTENDS Integers, Sequences, FiniteSets, TLC

\* ------------------------------------------------------------------ bounds
MaxRequests == 3
MaxBatchSize == 2
MaxCooldown == 1

VARIABLES
    batch_size,     \* self.batch_size
    cooldown,       \* self.cooldown
    request_queue,  \* self.request_queue: sequence of request ids
    processing,     \* self.processing
    funcs,          \* funcs[r]: request r's operation, and what it did once it has run
    futures,        \* futures[r]: request r's asyncio.Future
    task,           \* task[r]: the process_batch task created by submission r
    \* history, not read by the program
    exec_log,       \* request ids in the order their operations were started
    batch_log,      \* the batches formed, in order
    cycle_info,     \* one record per drain cycle (processing set to True)
    submitted_at,   \* submitted_at[r]: the drain loop's position and cycle when r was submitted
    elapsed,        \* time without an operation in flight since the last one completed,
                    \* counted up to cooldown
    bad_set,        \* a set_result/set_exception was called on a done future
    aborted         \* <<t, how>>: drain task t was ended by a cancellation or by an
                    \* error of the loop itself

vars == <<batch_size, cooldown, request_queue, processing, funcs, futures, task,
          exec_log, batch_log, cycle_info, submitted_at, elapsed, bad_set, aborted>>

\* ----------------------------------------------------------------- helpers
Min(a, b) == IF a < b THEN a ELSE b
Max(a, b) == IF a > b THEN a ELSE b
Range(s) == {s[k] : k \in DOMAIN s}

\* asyncio.Future states
Pending == [state |-> "pending", val |-> 0]
\* the error raised by Future.set_result / set_exception on a done future
InvalidStateError == 0 - 1
\* an error raised by a statement of the loop itself (lines 60-61, 66, 70,
\* 74-80), not by an operation
MechError == 0 - 2

\* a process_batch task that was created and has not run yet
ReadyTask == [pc |-> "ready", batch |-> <<>>, i |-> 0, sleep_left |-> 0]
\* a process_batch task that has returned
DoneTask == [pc |-> "done", batch |-> <<>>, i |-> 0, sleep_left |-> 0]

\* the tasks that are inside the drain loop (between line 47 and line 88)
Draining == {t \in DOMAIN task : task[t].pc \in {"op", "sleep"}}

\* `await request.func(*args, **kwargs)`: the operation returns its value or
\* raises its own error; which of the two is known when it has run
RunFunc(f) ==
    IF f.kind = "ok" THEN [state |-> "result", val |-> f.val]
                     ELSE [state |-> "exception", val |-> f.val]

\* variant: the range of line 53 is one too long
PopCount_PlusOne(q, bs) == Max(0, Min(bs + 1, Len(q)))

\* line 53: how many requests the batch takes
PopCount(q, bs) == Max(0, Min(bs, Len(q)))

\* variant: pop() instead of popleft()
PopBatch_FromRight(q, bs) ==
    [batch |-> [k \in 1..PopCount(q, bs) |-> q[Len(q) - k + 1]],
     rest  |-> SubSeq(q, 1, Len(q) - PopCount(q, bs))]

\* variant: the last request of the batch is read but left in the queue
PopBatch_Overlap(q, bs) ==
    [batch |-> SubSeq(q, 1, Min(Len(q), PopCount(q, bs) + 1)),
     rest  |-> SubSeq(q, PopCount(q, bs) + 1, Len(q))]

\* variant: one popleft too many, its request is thrown away
PopBatch_DropsOne(q, bs) ==
    [batch |-> SubSeq(q, 1, PopCount(q, bs)),
     rest  |-> SubSeq(q, PopCount(q, bs) + 2, Len(q))]

\* lines 51-55: the batch popped from the left of the queue, and what is left
PopBatch(q, bs) ==
    [batch |-> SubSeq(q, 1, PopCount(q, bs)),
     rest  |-> SubSeq(q, PopCount(q, bs) + 1, Len(q))]

\* variant: the processing flag is not looked at
ProcessingCheck_Never(p) == FALSE

\* lines 41-46: process_batch returns at once when self.processing is set
ProcessingCheck(p) == p

\* variant: the outcome goes to the future of the newest pending request
SetOutcome_WrongFuture(fut, r, f) ==
    LET w == CHOOSE x \in DOMAIN fut :
                 /\ fut[x] = Pending
                 /\ \A y \in DOMAIN fut : fut[y] = Pending => x >= y
    IN [fut |-> [fut EXCEPT ![w] = RunFunc(f)], raised |-> FALSE, err |-> 0]

\* variant: no handler at line 69, the operation's error leaves the loop
SetOutcome_NoCatch(fut, r, f) ==
    IF f.kind = "fail" THEN [fut |-> fut, raised |-> TRUE, err |-> f.val]
    ELSE IF fut[r] = Pending
    THEN [fut |-> [fut EXCEPT ![r] = RunFunc(f)], raised |-> FALSE, err |-> 0]
    ELSE [fut |-> fut, raised |-> TRUE, err |-> InvalidStateError]

\* variant: the handler at line 69 logs the error and does not store it
SetOutcome_DropFailure(fut, r, f) ==
    IF f.kind = "fail" THEN [fut |-> fut, raised |-> FALSE, err |-> 0]
    ELSE IF fut[r] = Pending
    THEN [fut |-> [fut EXCEPT ![r] = RunFunc(f)], raised |-> FALSE, err |-> 0]
    ELSE [fut |-> fut, raised |-> TRUE, err |-> InvalidStateError]

\* lines 65-71: the operation's outcome is stored in the request's future; an
\* error raised by the operation is caught at line 69.  raised tells whether
\* an error leaves the handler (set_result and set_exception raise
\* InvalidStateError on a future that is done).
SetOutcome(fut, r, f) ==
    IF fut[r] = Pending
    THEN [fut |-> [fut EXCEPT ![r] = RunFunc(f)], raised |-> FALSE, err |-> 0]
    ELSE [fut |-> fut, raised |-> TRUE, err |-> InvalidStateError]

\* line 78: a cooldown follows the batch when requests are left
NeedsCooldown(q) == q # <<>>

\* variant: no done() test at line 85
FailBatch_All(fut, batch, e) ==
    [r \in DOMAIN fut |->
        IF r \in Range(batch) THEN [state |-> "exception", val |-> e] ELSE fut[r]]

\* lines 84-86: every request of the batch that is not done gets the error
FailBatch(fut, batch, e) ==
    [r \in DOMAIN fut |->
        IF r \in Range(batch) /\ fut[r] = Pending
        THEN [state |-> "exception", val |-> e] ELSE fut[r]]

\* variant: the cooldown is not passed to the sleep
SleepTime_Zero(delay) == 0

\* asyncio.sleep(delay): a delay <= 0 yields once and returns
SleepTime(delay) == Max(delay, 0)

\* --------------------------------------------------------------- operations
\* __init__: stores its arguments without checking them
BatchRequestorInit(bs, cd) ==
    /\ batch_size = bs
    /\ cooldown = cd
    /\ request_queue = <<>>
    /\ processing = FALSE
    /\ funcs = <<>>
    /\ futures = <<>>
    /\ task = <<>>
    /\ exec_log = <<>>
    /\ batch_log = <<>>
    /\ cycle_info = <<>>
    /\ submitted_at = <<>>
    /\ elapsed = 0
    /\ bad_set = FALSE
    /\ aborted = {}

\* variant: no finally clause, the flag stays set
ExitLoop_KeepFlag(t) ==
    /\ processing' = processing
    /\ task' = [task EXCEPT ![t] = DoneTask]
    /\ UNCHANGED <<request_queue, exec_log, batch_log>>

\* variant: the flag is reset after the loop instead of in a finally clause
ExitLoop_AfterLoop(t) ==
    /\ processing' = IF request_queue = <<>> THEN FALSE ELSE processing
    /\ task' = [task EXCEPT ![t] = DoneTask]
    /\ UNCHANGED <<request_queue, exec_log, batch_log>>

\* the finally clause, reached from `while` seeing an empty queue or `break`
ExitLoop(t) ==
    /\ processing' = FALSE
    /\ task' = [task EXCEPT ![t] = DoneTask]
    /\ UNCHANGED <<request_queue, exec_log, batch_log>>

\* variant: the early return runs the finally clause of the loop
ReturnEarly_ClearsFlag(t) ==
    /\ task' = [task EXCEPT ![t] = DoneTask]
    /\ processing' = FALSE
    /\ UNCHANGED <<request_queue, exec_log, batch_log, cycle_info>>

\* lines 42 and 46: process_batch returns, nothing else happens
ReturnEarly(t) ==
    /\ task' = [task EXCEPT ![t] = DoneTask]
    /\ UNCHANGED <<request_queue, processing, exec_log, batch_log, cycle_info>>

\* lines 50-67: from the `while` test to the first operation of the batch.
\* p is the value of self.processing when the test is reached, c the number
\* of the drain cycle.
LoopHead(t, p, c) ==
    LET popped == PopBatch(request_queue, batch_size)
        batch == popped.batch
    IN
    IF request_queue = <<>> \/ batch = <<>>
    THEN ExitLoop(t)
    ELSE /\ processing' = p
         /\ request_queue' = popped.rest
         /\ task' = [task EXCEPT ![t] =
                        [pc |-> "op", batch |-> batch, i |-> 1, sleep_left |-> 0]]
         /\ exec_log' = Append(exec_log, batch[1])
         /\ batch_log' = Append(batch_log,
                [reqs |-> batch, cycle |-> c])

\* submit_request, lines 102-107, up to `await future`
Submit ==
    /\ Len(futures) < MaxRequests
    /\ LET r == Len(futures) + 1 IN
        /\ funcs' = Append(funcs, [kind |-> "unrun", val |-> r])
        /\ futures' = Append(futures, Pending)
        /\ request_queue' = Append(request_queue, r)
        /\ task' = Append(task, ReadyTask)
        /\ submitted_at' = Append(submitted_at,
                [pc |-> IF Draining = {} THEN "idle"
                        ELSE task[CHOOSE t \in Draining : TRUE].pc,
                 cycle |-> Len(cycle_info)])
        /\ cycle_info' = IF processing /\ cycle_info # <<>>
                         THEN [cycle_info EXCEPT ![Len(cycle_info)].late = TRUE]
                         ELSE cycle_info
    /\ UNCHANGED <<batch_size, cooldown, processing, exec_log, batch_log,
                   elapsed, bad_set, aborted>>

\* process_batch, first step of the task: lines 41-47, then the loop
StartProcessBatch(t) ==
    /\ t \in DOMAIN task
    /\ task[t].pc = "ready"
    /\ \A u \in 1..(t - 1) : task[u].pc # "ready"   \* the ready queue is FIFO
    /\ IF ProcessingCheck(processing)
       THEN ReturnEarly(t)
       ELSE /\ cycle_info' = Append(cycle_info,
                    [n |-> Len(request_queue), first |-> Len(exec_log) + 1,
                     late |-> FALSE])
            /\ LoopHead(t, TRUE, Len(cycle_info) + 1)
    /\ UNCHANGED <<batch_size, cooldown, funcs, futures, submitted_at, elapsed, bad_set,
                   aborted>>

\* lines 67-80: the awaited operation of batch[i] completes, with a value
\* (kind "ok") or an error (kind "fail"); its future is resolved; the loop
\* goes on to the next request, the cooldown or the exit
OpComplete(t, kind) ==
    /\ t \in DOMAIN task
    /\ task[t].pc = "op"
    /\ LET r == task[t].batch[task[t].i]
           f == [funcs[r] EXCEPT !.kind = kind]
           out == SetOutcome(futures, r, f)
       IN
       /\ funcs' = [funcs EXCEPT ![r] = f]
       /\ bad_set' = (bad_set \/ futures[r] # Pending)
       /\ IF ~out.raised
          THEN /\ futures' = out.fut
               /\ IF task[t].i < Len(task[t].batch)
                  THEN /\ task' = [task EXCEPT ![t].i = task[t].i + 1]
                       /\ exec_log' = Append(exec_log, task[t].batch[task[t].i + 1])
                       /\ UNCHANGED <<request_queue, processing, batch_log>>
                  ELSE IF NeedsCooldown(request_queue)
                  THEN /\ task' = [task EXCEPT ![t].pc = "sleep",
                                               ![t].sleep_left = SleepTime(cooldown)]
                       /\ UNCHANGED <<request_queue, processing, exec_log, batch_log>>
                  ELSE LoopHead(t, processing, Len(cycle_info))
          ELSE \* the error leaves the loop: lines 81-88
               /\ futures' = FailBatch(out.fut, task[t].batch, out.err)
               /\ ExitLoop(t)
    /\ elapsed' = 0
    /\ UNCHANGED <<batch_size, cooldown, cycle_info, submitted_at, aborted>>

\* line 80 returns: the cooldown is over, back to the `while` test
Wake(t) ==
    /\ t \in DOMAIN task
    /\ task[t].pc = "sleep"
    /\ task[t].sleep_left = 0
    /\ LoopHead(t, processing, Len(cycle_info))
    /\ UNCHANGED <<batch_size, cooldown, funcs, futures, cycle_info, submitted_at,
                   elapsed, bad_set, aborted>>

\* an operation is in flight
InFlight == \E t \in DOMAIN task : task[t].pc = "op"

\* one unit of time passes: the sleep timers run down
Tick ==
    /\ \/ elapsed < cooldown /\ ~InFlight
       \/ \E t \in DOMAIN task : task[t].pc = "sleep" /\ task[t].sleep_left > 0
    /\ elapsed' = IF elapsed < cooldown /\ ~InFlight THEN elapsed + 1 ELSE elapsed
    /\ task' = [t \in DOMAIN task |->
                  IF task[t].pc = "sleep" /\ task[t].sleep_left > 0
                  THEN [task[t] EXCEPT !.sleep_left = @ - 1] ELSE task[t]]
    /\ UNCHANGED <<batch_size, cooldown, request_queue, processing, funcs, futures,
                   exec_log, batch_log, cycle_info, submitted_at, bad_set, aborted>>

\* The drain task is cancelled while it awaits an operation or sleeps:
\* CancelledError is raised at the await.  It is a BaseException, so neither
\* line 69 nor line 81 catches it; only the finally clause runs.
Cancel(t) ==
    /\ t \in Draining
    /\ ExitLoop(t)
    /\ aborted' = aborted \cup {<<t, "cancel">>}
    /\ UNCHANGED <<batch_size, cooldown, funcs, futures, cycle_info, submitted_at,
                   elapsed, bad_set>>

\* lines 81-88: an error e of the loop itself is caught at line 81 with
\* `batch` in flight
Contain(t, fut, batch, e) ==
    /\ futures' = FailBatch(fut, batch, e)
    /\ processing' = FALSE
    /\ task' = [task EXCEPT ![t] = DoneTask]
    /\ aborted' = aborted \cup {<<t, "error">>}

\* The loop forms a batch (lines 50-55) and a statement before the first
\* operation (lines 60-66) raises: on the first pass of a starting task, or
\* on a later pass after the cooldown.
MechFailAtHead(t) ==
    /\ t \in DOMAIN task
    /\ \/ /\ task[t].pc = "ready"
          /\ \A u \in 1..(t - 1) : task[u].pc # "ready"
          /\ ~ProcessingCheck(processing)
          /\ cycle_info' = Append(cycle_info,
                  [n |-> Len(request_queue), first |-> Len(exec_log) + 1,
                   late |-> FALSE])
          /\ batch_log' = Append(batch_log,
                  [reqs |-> PopBatch(request_queue, batch_size).batch,
                   cycle |-> Len(cycle_info) + 1])
       \/ /\ task[t].pc = "sleep"
          /\ task[t].sleep_left = 0
          /\ cycle_info' = cycle_info
          /\ batch_log' = Append(batch_log,
                  [reqs |-> PopBatch(request_queue, batch_size).batch,
                   cycle |-> Len(cycle_info)])
    /\ PopBatch(request_queue, batch_size).batch # <<>>
    /\ request_queue' = PopBatch(request_queue, batch_size).rest
    /\ Contain(t, futures, PopBatch(request_queue, batch_size).batch, MechError)
    /\ UNCHANGED <<batch_size, cooldown, funcs, exec_log, submitted_at, elapsed, bad_set>>

\* The operation of batch[i] completes and a statement of the loop raises
\* before the next await: after a value was stored (line 68), line 66 of the
\* next pass or lines 74-80 raise; after the operation failed, line 70 raises
\* before its error is stored.
MechFailInBatch(t, kind) ==
    /\ t \in DOMAIN task
    /\ task[t].pc = "op"
    /\ LET r == task[t].batch[task[t].i]
           f == [funcs[r] EXCEPT !.kind = kind]
           out == SetOutcome(futures, r, f)
       IN
       /\ funcs' = [funcs EXCEPT ![r] = f]
       /\ IF kind = "ok"
          THEN /\ bad_set' = (bad_set \/ futures[r] # Pending)
               /\ Contain(t, out.fut, task[t].batch, IF out.raised THEN out.err ELSE MechError)
          ELSE /\ bad_set' = bad_set
               /\ Contain(t, futures, task[t].batch, MechError)
    /\ elapsed' = 0
    /\ UNCHANGED <<batch_size, cooldown, request_queue, exec_log, batch_log, cycle_info,
                   submitted_at>>

\* The submitter of request r gives up while suspended at line 108 (its task
\* is cancelled, e.g. by a timeout around submit_request): cancelling the
\* `await future` cancels the future.  The request stays where it is, in
\* the queue or in the batch.
Abandon(r) ==
    /\ r \in DOMAIN futures
    /\ futures[r] = Pending
    /\ futures' = [futures EXCEPT ![r] = [state |-> "cancelled", val |-> 0]]
    /\ UNCHANGED <<batch_size, cooldown, request_queue, processing, funcs, task,
                   exec_log, batch_log, cycle_info, submitted_at, elapsed, bad_set,
                   aborted>>

\* The statements that write request_queue or processing:
\* "append" (line 104), "popleft" (line 55), "set_flag" (line 47) and
\* "clear_flag" (line 88).
WriteSites == {"append", "popleft", "set_flag", "clear_flag"}

\* variant: process_batch never takes the lock
LockHeldAt_None(site) == FALSE

\* lines 44-47: `async with self.lock` spans the second test of the flag and
\* `self.processing = True`, nothing else; no other statement takes the lock
LockHeldAt(site) == site = "set_flag"

\* an instance constructed with a positive batch size and a non-negative cooldown
Init == \E bs \in 1..MaxBatchSize, cd \in 0..MaxCooldown : BatchRequestorInit(bs, cd)

\* an instance constructed with any arguments
InitAnyConfig ==
    \E bs \in (0 - 1)..MaxBatchSize, cd \in (0 - 1)..MaxCooldown : BatchRequestorInit(bs, cd)

Next ==
    \/ Submit
    \/ \E t \in 1..MaxRequests : StartProcessBatch(t)
    \/ \E t \in 1..MaxRequests, kind \in {"ok", "fail"} : OpComplete(t, kind)
    \/ \E t \in 1..MaxRequests : Wake(t)
    \/ Tick

Spec == Init /\ [][Next]_vars

\* The event loop runs every ready task, every awaited operation completes,
\* and timers expire.  Nothing obliges a caller to submit.
Fairness ==
    /\ \A t \in 1..MaxRequests : WF_vars(StartProcessBatch(t))
    /\ \A t \in 1..MaxRequests : WF_vars(\E kind \in {"ok", "fail"} : OpComplete(t, kind))
    /\ \A t \in 1..MaxRequests : WF_vars(Wake(t))
    /\ WF_vars(Tick)

FairSpec == Spec /\ Fairness

SpecAnyConfig == InitAnyConfig /\ [][Next]_vars

\* the drain task may be cancelled
NextCancel ==
    \/ Next
    \/ \E t \in 1..MaxRequests : Cancel(t)

SpecCancel == Init /\ [][NextCancel]_vars

\* statements of the loop itself may raise
NextMech ==
    \/ Next
    \/ \E t \in 1..MaxRequests : MechFailAtHead(t)
    \/ \E t \in 1..MaxRequests, kind \in {"ok", "fail"} : MechFailInBatch(t, kind)

SpecMech == Init /\ [][NextMech]_vars

\* any constructor arguments, cancellation and errors of the loop itself
NextAll ==
    \/ NextMech
    \/ \E t \in 1..MaxRequests : Cancel(t)

SpecAll == InitAnyConfig /\ [][NextAll]_vars

\* submitters may give up their wait
NextAbandon ==
    \/ Next
    \/ \E r \in 1..MaxRequests : Abandon(r)

SpecAbandon == Init /\ [][NextAbandon]_vars

\* ------------------------------------------------------------------ claims
Done(r) == futures[r].state # "pending"
OwnOutcome(r) ==
    /\ funcs[r].kind = "ok" => futures[r] = [state |-> "result", val |-> r]
    /\ funcs[r].kind = "fail" => futures[r] = [state |-> "exception", val |-> r]
\* the request whose operation task t is awaiting
Current(t) == task[t].batch[task[t].i]
\* the requests of a batch in flight whose turn has not come yet
Waiting == UNION {{task[t].batch[k] : k \in (task[t].i + 1)..Len(task[t].batch)} :
                    t \in {u \in DOMAIN task : task[u].pc = "op"}}
NoDuplicates(s) == \A j, k \in DOMAIN s : s[j] = s[k] => j = k

\* C1: at most one drain loop is active at any time, whatever the order in
\* which submissions and process_batch tasks run; the flag is set while it is.
C1_SingleDrain ==
    /\ Cardinality(Draining) <= 1
    /\ Draining # {} => processing

\* a later process_batch task ran while a drain loop was active, and returned
C1_Witness ==
    \E t \in Draining : \E u \in DOMAIN task : u > t /\ task[u].pc = "done"

\* C2: every submitted request is eventually resolved, given that every
\* operation completes and the event loop runs its tasks and timers.
C2_EventuallyResolved ==
    \A r \in 1..MaxRequests :
        (r \in DOMAIN futures) ~> (r \in DOMAIN futures /\ Done(r))

\* requests submitted before the drain, during an operation and during a
\* cooldown are all resolved
C2_Witness ==
    /\ Len(submitted_at) >= 3
    /\ submitted_at[1].pc = "idle" /\ submitted_at[2].pc = "op" /\ submitted_at[3].pc = "sleep"
    /\ \A r \in DOMAIN futures : Done(r)

\* C3: a resolved future holds the outcome of its own request's operation:
\* the value it returned or the error it raised, never another request's.
C3_OwnOutcome == \A r \in DOMAIN futures : Done(r) => OwnOutcome(r)

\* three requests, failures and successes mixed, all resolved
C3_Witness ==
    /\ Len(futures) >= 3
    /\ \A r \in DOMAIN futures : Done(r)
    /\ \E r \in DOMAIN futures : futures[r].state = "result"
    /\ \E r \in DOMAIN futures : futures[r].state = "exception"

\* C4: when an operation fails, its request gets the failure and the drain
\* loop goes on: to the next request of the batch, or after the last one to
\* the cooldown when requests are queued; it ends only on an empty queue.
\* Every request of a formed batch whose turn has come and gone is resolved
\* with its own outcome.
C4_FailureStep ==
    \A t \in DOMAIN task :
        (task[t].pc = "op" /\ funcs'[Current(t)].kind = "fail" /\ task'[t] # task[t]) =>
            /\ futures'[Current(t)] = [state |-> "exception", val |-> Current(t)]
            /\ IF task[t].i < Len(task[t].batch)
               THEN /\ task'[t] = [task[t] EXCEPT !.i = task[t].i + 1]
                    /\ exec_log' = Append(exec_log, task[t].batch[task[t].i + 1])
               ELSE IF request_queue # <<>>
               THEN task'[t].pc = "sleep" /\ processing'
               ELSE task'[t].pc = "done"
C4_BatchCompletes ==
    \A k \in DOMAIN batch_log : \A r \in Range(batch_log[k].reqs) :
        \/ r \in Waiting
        \/ \E t \in DOMAIN task : task[t].pc = "op" /\ Current(t) = r
        \/ Done(r) /\ OwnOutcome(r)
C4_FailureIsolated == [][C4_FailureStep]_vars /\ []C4_BatchCompletes

\* the first request of a batch of two failed, the second succeeded, and a
\* later batch was formed
C4_Witness ==
    /\ Len(batch_log) >= 2
    /\ batch_log[1].reqs = <<1, 2>>
    /\ futures[1].state = "exception"
    /\ futures[2].state = "result"

\* C5: a future is resolved at most once and only by the drain loop, for the
\* request whose operation it has just run; set_result and set_exception are
\* never called on a done future; no operation is run twice.
C5_ResolveStep ==
    \A r \in DOMAIN futures :
        futures'[r] # futures[r] =>
            /\ futures[r] = Pending
            /\ \E t \in Draining : task[t].pc = "op" /\ Current(t) = r
C5_ResolvedOnce ==
    /\ [][C5_ResolveStep]_vars
    /\ [](~bad_set /\ NoDuplicates(exec_log))

\* every request of several batches was run and resolved
C5_Witness ==
    /\ Len(batch_log) >= 2
    /\ Len(exec_log) >= 3
    /\ \A r \in DOMAIN futures : Done(r)

\* the batches formed in drain cycle c
CycleBatches(c) ==
    LET InCycle(b) == b.cycle = c IN SelectSeq(batch_log, InCycle)
CycleOver(c) == Len(cycle_info) > c \/ ~processing
Ceil(n, b) == (n + b - 1) \div b
\* the size of batch k when n requests are taken b at a time
ExpectedSize(n, b, k) ==
    IF k < Ceil(n, b) THEN b ELSE IF n % b = 0 THEN b ELSE n % b
\* Drain cycle c, which found n requests queued and got none later, takes
\* them in submission order in batches of batch_size, the last one holding
\* the remainder; once over it has formed Ceil(n, batch_size) batches.
CycleBatching(c) ==
    LET n == cycle_info[c].n
        first == cycle_info[c].first
        bs == CycleBatches(c)
    IN  ~cycle_info[c].late =>
            /\ Len(bs) <= Ceil(n, batch_size)
            /\ \A k \in DOMAIN bs :
                  /\ Len(bs[k].reqs) = ExpectedSize(n, batch_size, k)
                  /\ \A j \in DOMAIN bs[k].reqs :
                        bs[k].reqs[j] = first + (k - 1) * batch_size + (j - 1)
            /\ CycleOver(c) => Len(bs) = Ceil(n, batch_size)

\* C6: N >= 1 requests all enqueued before any draining starts are run in
\* ceil(N/B) consecutive batches of sizes B, ..., B and a last one of N mod B
\* (B when N is a multiple of B), in submission order.
C6_BatchSizes ==
    (cycle_info # <<>>) =>
        /\ cycle_info[1].n >= 1 /\ cycle_info[1].first = 1
        /\ CycleBatching(1)

\* three requests queued before the drain, batch_size 2: batches of 2 and 1
C6_Witness ==
    /\ cycle_info # <<>> /\ ~cycle_info[1].late /\ CycleOver(1)
    /\ cycle_info[1].n = 3 /\ batch_size = 2
    /\ Len(CycleBatches(1)) = 2
    /\ Len(batch_log[1].reqs) = 2 /\ Len(batch_log[2].reqs) = 1

\* C7: operations start in submission order, each one after every earlier
\* request has been resolved, wherever in the drain cycle the later request
\* was submitted; a request submitted while a drain loop runs is taken by a
\* batch of that same drain cycle.
C7_GlobalFifo ==
    /\ \A k \in DOMAIN exec_log : exec_log[k] = k
    /\ \A k \in DOMAIN exec_log : k < Len(exec_log) => Done(exec_log[k])
    /\ \A r1, r2 \in DOMAIN futures : (r1 < r2 /\ Done(r2)) => Done(r1)
    /\ \A k \in DOMAIN batch_log : \A r \in Range(batch_log[k].reqs) :
          submitted_at[r].pc # "idle" => batch_log[k].cycle = submitted_at[r].cycle

\* a request submitted while an operation ran and one submitted during the
\* cooldown have both been started, after the first
C7_Witness ==
    /\ Len(exec_log) >= 3
    /\ submitted_at[2].pc = "op" /\ submitted_at[3].pc = "sleep"
    /\ Len(batch_log) >= 2 /\ batch_log[2].cycle = batch_log[1].cycle

\* C8: inside a drain cycle a batch after the first is formed only by the
\* drain loop returning from a sleep of cooldown that began when the previous
\* batch ended with requests queued; the loop never sleeps on an empty queue
\* and exits at once when the queue is empty after a batch.
C8_BatchEndStep ==
    \A t \in DOMAIN task :
        (task[t].pc = "op" /\ task[t].i = Len(task[t].batch) /\ task'[t] # task[t]) =>
            IF request_queue # <<>>
            THEN task'[t] = [task[t] EXCEPT !.pc = "sleep", !.sleep_left = Max(cooldown, 0)]
                 /\ batch_log' = batch_log
            ELSE task'[t].pc = "done" /\ ~processing'
C8_NextBatchStep ==
    (batch_log' # batch_log /\ Draining # {}) =>
        /\ \E t \in Draining :
              /\ task[t].pc = "sleep" /\ task[t].sleep_left = 0
              /\ task'[t].pc = "op"
        /\ elapsed >= cooldown
        /\ batch_log # <<>>
        /\ batch_log'[Len(batch_log')].cycle = batch_log[Len(batch_log)].cycle
C8_Paused ==
    \A t \in DOMAIN task : task[t].pc = "sleep" => request_queue # <<>>
C8_Cooldown == [][C8_BatchEndStep /\ C8_NextBatchStep]_vars /\ []C8_Paused

\* batch_size 1, three requests queued at once, a cooldown of 1: three
\* batches in one drain cycle, the loop exited
C8_Witness ==
    /\ batch_size = 1 /\ cooldown = 1
    /\ cycle_info # <<>> /\ cycle_info[1].n = 3
    /\ Len(CycleBatches(1)) = 3
    /\ ~processing

\* C9: an instance that accepts a submission has a positive batch_size and
\* a non-negative cooldown.
C9_InvalidConfigRejected ==
    Len(futures) >= 1 => (batch_size >= 1 /\ cooldown >= 0)

\* C10: once the drain loop has exited the flag is clear and nothing of the
\* old cycle is left; the next process_batch task to run on a non-empty queue
\* starts a drain loop on the front of the queue, and every later drain
\* cycle batches and orders its requests as the first one does.
C10_RestartStep ==
    \A t \in DOMAIN task :
        (/\ cycle_info # <<>> /\ Draining = {} /\ request_queue # <<>>
         /\ task[t].pc = "ready" /\ task'[t] # task[t]) =>
            /\ processing'
            /\ task'[t].pc = "op"
            /\ task'[t].batch = SubSeq(request_queue, 1, Min(batch_size, Len(request_queue)))
            /\ Len(cycle_info') = Len(cycle_info) + 1
C10_LaterCycles ==
    /\ Draining = {} => ~processing
    /\ \A c \in DOMAIN cycle_info :
          c >= 2 => /\ \A r \in DOMAIN futures : r < cycle_info[c].first => Done(r)
                    /\ cycle_info[c].first + cycle_info[c].n - 1 <= Len(futures)
                    /\ CycleBatching(c)
C10_Restart == [][C10_RestartStep]_vars /\ []C10_LaterCycles

\* a second drain cycle found two requests queued and ran them one per batch
C10_Witness ==
    \E c \in DOMAIN cycle_info :
        /\ c >= 2 /\ cycle_info[c].n = 2 /\ ~cycle_info[c].late /\ CycleOver(c)
        /\ Len(CycleBatches(c)) = 2

\* C11: when the drain task is cancelled, every request still in the queue
\* or in the batch in flight that is not resolved is resolved with a failure.
C11_TeardownStep ==
    \A t \in DOMAIN task :
        (<<t, "cancel">> \in aborted' /\ <<t, "cancel">> \notin aborted) =>
            \A r \in Range(request_queue) \cup Range(task[t].batch) :
                \/ Done(r) /\ futures'[r] = futures[r]
                \/ futures[r] = Pending /\ futures'[r].state = "exception"
C11_TeardownResolves == [][C11_TeardownStep]_vars

\* C12: any two consecutively formed batches are separated by a pause of
\* cooldown: a batch that is not the first one of the instance is formed only
\* when cooldown has elapsed since the last operation completed, also when it
\* opens a new drain cycle.
C12_BatchStep ==
    (batch_log' # batch_log /\ batch_log # <<>>) => elapsed >= cooldown
C12_RateLimited == [][C12_BatchStep]_vars

\* C13: a batch is the first min(batch_size, len(queue)) requests of the
\* queue when it is formed, in queue order; forming it removes exactly those
\* and leaves the rest in order; a batch in flight never changes, whatever is
\* enqueued meanwhile.
C13_FormStep ==
    (batch_log' # batch_log) =>
        LET b == batch_log'[Len(batch_log')].reqs
            n == Min(batch_size, Len(request_queue))
        IN  /\ Len(batch_log') = Len(batch_log) + 1
            /\ Len(b) = n
            /\ \A k \in 1..n : b[k] = request_queue[k]
            /\ Len(request_queue') = Len(request_queue) - n
            /\ \A k \in 1..Len(request_queue') : request_queue'[k] = request_queue[n + k]
            /\ \E t \in DOMAIN task' : task'[t].pc = "op" /\ task'[t].batch = b
C13_KeepStep ==
    \A t \in DOMAIN task :
        (task[t].pc \in {"op", "sleep"} /\ task'[t].pc \in {"op", "sleep"}
            /\ batch_log' = batch_log) => task'[t].batch = task[t].batch
C13_BatchIsQueueFront == [][C13_FormStep /\ C13_KeepStep]_vars

\* a batch of one was in flight with room left when request 2 arrived; the
\* request went to the next batch, together with request 3
C13_Witness ==
    /\ batch_size = 2
    /\ Len(batch_log) >= 2
    /\ batch_log[1].reqs = <<1>>
    /\ submitted_at[2].pc = "op"
    /\ batch_log[2].reqs = <<2, 3>>

\* C14: when a statement of the loop itself raises, every request of the
\* batch in flight that is not resolved gets that error before the loop
\* exits; requests already resolved keep their outcome; requests in the
\* queue stay queued and pending.
C14_ContainStep ==
    \A t \in DOMAIN task :
        (<<t, "error">> \in aborted' /\ <<t, "error">> \notin aborted) =>
            LET formed == batch_log' # batch_log
                batch == IF formed THEN batch_log'[Len(batch_log')].reqs
                         ELSE task[t].batch
            IN  /\ \A r \in Range(batch) :
                      futures[r] = Pending =>
                          \/ futures'[r] = [state |-> "exception", val |-> MechError]
                          \/ /\ ~formed /\ r = task[t].batch[task[t].i]
                             /\ funcs'[r].kind = "ok"
                             /\ futures'[r] = [state |-> "result", val |-> r]
                /\ \A r \in DOMAIN futures : Done(r) => futures'[r] = futures[r]
                /\ \A r \in Range(request_queue') : futures'[r] = Pending
                /\ IF formed
                   THEN request_queue' = SubSeq(request_queue, Len(batch) + 1, Len(request_queue))
                   ELSE request_queue' = request_queue
                /\ task'[t].pc = "done"
                /\ ~processing'
C15_FreshStep ==
    /\ Len(futures') > Len(futures) =>
           task'[Len(task')].pc = "ready" /\ request_queue' # <<>>
    /\ \A t \in DOMAIN task :
        ( /\ task[t].pc = "ready" /\ task'[t].pc # "ready"
          /\ \E u \in DOMAIN task : <<u, "error">> \in aborted
          /\ Draining = {}
          /\ request_queue # <<>>
          /\ aborted' = aborted )
        => /\ processing'
           /\ task'[t].pc = "op"
           /\ task'[t].batch[1] = Head(request_queue)
           /\ Len(cycle_info') = Len(cycle_info) + 1
C15_FlagCleared == [](processing => Draining # {}) /\ [][C15_FreshStep]_vars

\* after an error of the loop, the task of a later submission is draining a
\* request that the failed cycle left in the queue
C15_Witness ==
    \E u, t \in DOMAIN task :
        /\ <<u, "error">> \in aborted
        /\ u < t
        /\ task[t].pc = "op" /\ processing
        /\ Current(t) < t
        /\ cycle_info[Len(cycle_info)].first > 1

\* C16: a drain loop that ends without an error of the loop or a
\* cancellation ends because the `while` test saw the queue empty: when the
\* flag goes back to False on such a path no request is left in the queue.
C16_IdleStep ==
    \A t \in DOMAIN task :
        ( /\ task[t].pc # "done" /\ task'[t].pc = "done"
          /\ ~(task[t].pc = "ready" /\ ProcessingCheck(processing))
          /\ aborted' = aborted )
        => /\ ~processing'
           /\ request_queue' = <<>>
C16_IdleOnlyWhenEmpty == [][C16_IdleStep]_vars

\* the writes of request_queue and processing that a step performs
C17_Writes ==
    {site \in WriteSites :
        \/ site = "append" /\ Len(futures') > Len(futures)
        \/ site = "popleft" /\ batch_log' # batch_log
        \/ site = "set_flag" /\ \E t \in DOMAIN task :
               /\ task[t].pc = "ready" /\ task'[t].pc # "ready"
               /\ ~ProcessingCheck(processing)
        \/ site = "clear_flag" /\ \E t \in DOMAIN task :
               /\ task[t].pc # "done" /\ task'[t].pc = "done"
               /\ ~(task[t].pc = "ready" /\ ProcessingCheck(processing))}

\* C17 as stated: every write of the queue (append, removal of a batch) and
\* of the processing flag (set and reset) is made while holding the lock.
C17_AllStep == \A site \in C17_Writes : LockHeldAt(site)
C17_LockStep ==
    /\ \A site \in C17_Writes : LockHeldAt(site) <=> site = "set_flag"
    /\ Cardinality({t \in DOMAIN task : task'[t] # task[t] /\ task[t].pc # "sleep"}) <= 1
    /\ "append" \in C17_Writes => C17_Writes = {"append"}
    /\ "popleft" \in C17_Writes => Draining' # {} \/ aborted' # aborted
C18_OneAtATime ==
    /\ Cardinality({t \in DOMAIN task : task[t].pc = "op"}) <= 1
    /\ \A k \in 1..(Len(exec_log) - 1) : Done(exec_log[k])
    /\ \A t \in DOMAIN task :
           task[t].pc = "op" =>
               /\ exec_log[Len(exec_log)] = Current(t)
               /\ futures[Current(t)] = Pending

\* the second operation of a batch is in flight, the first is resolved and
\* a third request waits in the queue
C18_Witness ==
    \E t \in DOMAIN task :
        /\ task[t].pc = "op" /\ task[t].i = 2
        /\ Done(task[t].batch[1])
        /\ request_queue # <<>>

\* C19: a process_batch task that starts while processing is True ends at
\* once and changes nothing: queue, flag, batch in flight, the other tasks,
\* futures and logs stay as they are.  A submission made while a drain is
\* active appends its request at the back of the queue, creates its pending
\* future and its task, and changes nothing else.
C19_ReturnStep ==
    \A t \in DOMAIN task :
        (task[t].pc = "ready" /\ task'[t].pc # "ready" /\ processing) =>
            /\ task'[t] = DoneTask
            /\ \A u \in DOMAIN task \ {t} : task'[u] = task[u]
            /\ UNCHANGED <<request_queue, processing, futures, funcs,
                           exec_log, batch_log, cycle_info>>
C19_SubmitStep ==
    (Len(futures') > Len(futures) /\ processing) =>
        /\ request_queue' = Append(request_queue, Len(futures) + 1)
        /\ futures' = Append(futures, Pending)
        /\ \A u \in DOMAIN task : task'[u] = task[u]
        /\ task'[Len(task')] = ReadyTask
        /\ UNCHANGED <<processing, exec_log, batch_log>>
C19_DrainStartIdempotent == [][C19_ReturnStep /\ C19_SubmitStep]_vars

\* the task of a submission made during a drain has returned; its request
\* is in the queue and the operation in flight is still in flight
C19_Witness ==
    \E t, u \in DOMAIN task :
        /\ u < t
        /\ task[u].pc = "op" /\ processing
        /\ task[t].pc = "done"
        /\ submitted_at[t].pc = "op"
        /\ t \in Range(request_queue)
        /\ futures[t] = Pending

\* C20: with batch_size >= 1 and no error of the loop itself, whenever the
\* queue is not empty either a drain loop is running with the flag set, or
\* a process_batch task created by a submission has not run yet; and such a
\* task, when it runs with the flag clear, starts a drain loop.  No request
\* is left in the queue with nothing to pick it up.
C20_Covered ==
    request_queue # <<>> =>
        \/ processing /\ Draining # {}
        \/ \E t \in DOMAIN task : task[t].pc = "ready"
C20_StartStep ==
    \A t \in DOMAIN task :
        (task[t].pc = "ready" /\ task'[t].pc # "ready" /\ ~processing
            /\ request_queue # <<>>) =>
            processing' /\ t \in Draining'
C20_NoLostWakeup == []C20_Covered /\ [][C20_StartStep]_vars

\* a drain cycle has ended, a request submitted since is in the queue and
\* only its own task, not yet run, can pick it up
C20_Witness ==
    /\ cycle_info # <<>>
    /\ ~processing /\ Draining = {}
    /\ request_queue # <<>>
    /\ \E t \in DOMAIN task : task[t].pc = "ready" /\ submitted_at[t].pc = "idle"
    /\ \E r \in DOMAIN futures : Done(r)

\* C21: a submitter that gives up its wait affects only its own request:
\* every other request that is resolved had its operation run and holds
\* that operation's outcome, and a drain loop that ends leaves no request
\* in the queue.
C21_OthersOwnOutcome ==
    \A r \in DOMAIN futures :
        (Done(r) /\ futures[r].state # "cancelled") =>
            funcs[r].kind # "unrun" /\ OwnOutcome(r)
C21_DrainGoesOnStep ==
    \A t \in DOMAIN task :
        (task[t].pc = "op" /\ task'[t].pc = "done") => request_queue' = <<>>
C21_AbandonIsolated == []C21_OthersOwnOutcome /\ [][C21_DrainGoesOnStep]_vars

====
